---- MODULE Spec2Model ----
(***************************************************************************)
(* Model of web3-core-method/src/observers/TransactionObserver.js.         *)
(*                                                                         *)
(* One TransactionObserver instance watches one transaction.  JavaScript   *)
(* runs every callback to its next `await` without interruption, so each   *)
(* action below is one such run: from the start of a callback (or from     *)
(* the settlement of the promise it awaits) to its next `await` or to its  *)
(* end.  The callbacks of different header announcements / timer ticks     *)
(* are separate async functions: nothing in the code makes a new one wait  *)
(* for an earlier one, so several may be suspended at the same time.       *)
(***************************************************************************)
EXTENDS Integers, Sequences, FiniteSets

\* ---------------------------------------------------------------- bounds
MaxCycles == 2            \* callbacks (announcements / ticks) started in one run
MaxHeadNumber == 2        \* announced header numbers are 1..MaxHeadNumber
MaxBlockNumber == 2       \* numbers of fetched blocks are 1..MaxBlockNumber
MaxHash == 2              \* block hashes are 1..MaxHash
MaxTimeout == 2           \* the constructor's timeout is 1..MaxTimeout
MaxBlockConfirmations == 2 \* the constructor's blockConfirmations is 1..MaxBlockConfirmations
MaxStops == 2             \* calls of stop() in one run

VARIABLES
    provider,            \* "socket" | "http": the result of isSocketBasedProvider()
    timeout,             \* this.timeout
    blockConfirmations,  \* this.blockConfirmations
    blockNumbers,        \* this.blockNumbers
    lastBlock,           \* this.lastBlock
    confirmations,       \* this.confirmations
    confirmationChecks,  \* this.confirmationChecks
    started,             \* the observable returned by observe() has been subscribed
    subscribed,          \* newHeadsSubscription delivers announcements
    intervalActive,      \* the setInterval timer of this.interval is running
    cycles,              \* the callbacks started so far, in order of their start
    events,              \* the calls made on the observer, in order
    unsubscribeCalls,    \* calls of newHeadsSubscription.unsubscribe()
    clearIntervalCalls,  \* calls of clearInterval(this.interval)
    stopCalls,           \* calls of stop()
    block                \* the result of the latest settled getBlockByHash()

vars == <<provider, timeout, blockConfirmations, blockNumbers, lastBlock,
          confirmations, confirmationChecks, started, subscribed,
          intervalActive, cycles, events, unsubscribeCalls,
          clearIntervalCalls, stopCalls, block>>

config == <<provider, timeout, blockConfirmations>>

\* ------------------------------------------------------------ data values
\* A receipt is represented by its blockHash; NoReceipt is the falsy result
\* of eth_getTransactionReceipt for a transaction that is not mined yet.
NoReceipt == 0
Pending == -1
Receipts == 1..MaxHash
\* Push mode never reads receipt.blockHash: one receipt stands for all.
FirstReceipt == CHOOSE r \in Receipts : \A r2 \in Receipts : r <= r2

\* this.lastBlock = false
NoBlock == [hash |-> 0, parentHash |-> 0, number |-> 0]
\* The headers getBlockByHash may return: no block is its own parent.
Blocks ==
    {b \in [hash : 1..MaxHash, parentHash : 1..MaxHash, number : 1..MaxBlockNumber] :
        b.parentHash # b.hash}

\* The deduplication test left out
IncludesNever(arr, x) == FALSE

\* Array.prototype.includes
Includes(arr, x) == \E k \in 1..Len(arr) : arr[k] = x

\* The argument of observer.next
NextEvent(receipt, c) ==
    [type |-> "next", kind |-> "", receipt |-> receipt,
     confirmations |-> c, confirmationChecks |-> 0]

\* observer.complete()
CompleteEvent ==
    [type |-> "complete", kind |-> "", receipt |-> NoReceipt,
     confirmations |-> 0, confirmationChecks |-> 0]

\* The arguments of observer.error; kind tells the Error object:
\* "timeout" is the 'Timeout exceeded ...' error, "failure" a caught one.
ErrorEvent(kind, receipt, c, k) ==
    [type |-> "error", kind |-> kind, receipt |-> receipt,
     confirmations |-> c, confirmationChecks |-> k]

\* The progress event built before the increment
emitNextStale(evs, receipt, c) == Append(evs, NextEvent(receipt, c - 1))

emitNext(evs, receipt, c) == Append(evs, NextEvent(receipt, c))

emitError(evs, kind, receipt, c, k) == Append(evs, ErrorEvent(kind, receipt, c, k))

\* One callback: pc is where it is suspended ("receipt": line 110 or 159,
\* "blockNext": line 163, "blockFirst": line 170, "done": returned, "failed":
\* returned through the catch of lines 136-142 or 192-195), number
\* the announced header number (0 for a timer tick or a subscription
\* error), fetched whether it has called getTransactionReceiptMethod.execute(),
\* receipt the result of that fetch once settled.
Cycle(pc, number, fetched, receipt) ==
    [pc |-> pc, number |-> number, fetched |-> fetched, receipt |-> receipt]

\* The callback i settles with the receipt r and is then at pc.
Settle(i, pc, r) == [cycles EXCEPT ![i].pc = pc, ![i].receipt = r]

\* --------------------------------------------------- confirmation policy
isConfirmed(c) == c = blockConfirmations

\* The continuity test left out
isValidConfirmationNumberOnly(last, b) == last.number # b.number

\* The validity test left out
isValidConfirmationAlways(last, b) == TRUE

isValidConfirmation(last, b) ==
    last.hash = b.parentHash /\ last.number # b.number

\* The budget test off by one, and relaxed to >=
isTimeoutTimeExceededEarly(k) == k = timeout - 1

isTimeoutTimeExceededLate(k) == k = timeout + 1

isTimeoutTimeExceededGe(k) == k >= timeout

isTimeoutTimeExceeded(k) == k = timeout

isSocketBasedProvider == provider = "socket"

\* ------------------------------------------------------------------ Init
Init ==
    /\ provider \in {"socket", "http"}
    /\ timeout \in 1..MaxTimeout
    /\ blockConfirmations \in 1..MaxBlockConfirmations
    /\ blockNumbers = <<>>
    /\ lastBlock = NoBlock
    /\ confirmations = 0
    /\ confirmationChecks = 0
    /\ started = FALSE
    /\ subscribed = FALSE
    /\ intervalActive = FALSE
    /\ cycles = <<>>
    /\ events = <<>>
    /\ unsubscribeCalls = 0
    /\ clearIntervalCalls = 0
    /\ stopCalls = 0
    /\ block = NoBlock

\* observe(transactionHash) and the subscription of its observable
Observe ==
    /\ ~started
    /\ started' = TRUE
    /\ subscribed' = isSocketBasedProvider
    /\ intervalActive' = ~isSocketBasedProvider
    /\ UNCHANGED <<config, blockNumbers, lastBlock, confirmations,
                   confirmationChecks, cycles, events, unsubscribeCalls,
                   clearIntervalCalls, stopCalls,
                   block>>

\* stop(), called by the holder of the stream once it observes.  Lines
\* 85-89 release the feed or the timer, unconditionally.  Line 91 calls
\* unsubscribe() on the value of this.observable (the Observable built by
\* Observable.create): whatever that call does, it reads and writes none
\* of the fields of the observer, so it changes nothing below.
stop ==
    /\ started
    /\ stopCalls < MaxStops
    /\ stopCalls' = stopCalls + 1
    /\ IF isSocketBasedProvider
         THEN /\ unsubscribeCalls' = unsubscribeCalls + 1
              /\ subscribed' = FALSE
              /\ UNCHANGED <<clearIntervalCalls, intervalActive>>
         ELSE /\ clearIntervalCalls' = clearIntervalCalls + 1
              /\ intervalActive' = FALSE
              /\ UNCHANGED <<unsubscribeCalls, subscribed>>
    /\ UNCHANGED <<config, blockNumbers, lastBlock, confirmations,
                   confirmationChecks, started, cycles, events, block>>

\* ------------------------------------------------------------- push mode
\* A header announcement whose fetch is skipped when the number was seen:
\* the deduplication moved in front of the receipt fetch.
startSocketObserverNewHeadDedupFirst(n) ==
    /\ started
    /\ isSocketBasedProvider
    /\ subscribed
    /\ Len(cycles) < MaxCycles
    /\ cycles' = Append(cycles,
                    IF Includes(blockNumbers, n)
                      THEN Cycle("done", n, FALSE, Pending)
                      ELSE Cycle("receipt", n, TRUE, Pending))
    /\ UNCHANGED <<config, blockNumbers, lastBlock, confirmations,
                   confirmationChecks, started, subscribed, intervalActive,
                   events, unsubscribeCalls, clearIntervalCalls, stopCalls,
                   block>>

\* The subscription announces the header number n: lines 103-110, up to
\* the await of the receipt fetch.  The feed announces nothing once
\* unsubscribe() has been called on it (and the timer of poll mode does
\* not fire once cleared); callbacks already started are not affected.
startSocketObserverNewHead(n) ==
    /\ started
    /\ isSocketBasedProvider
    /\ subscribed
    /\ Len(cycles) < MaxCycles
    /\ cycles' = Append(cycles, Cycle("receipt", n, TRUE, Pending))
    /\ UNCHANGED <<config, blockNumbers, lastBlock, confirmations,
                   confirmationChecks, started, subscribed, intervalActive,
                   events, unsubscribeCalls, clearIntervalCalls, stopCalls,
                   block>>

\* The subscription reports an error: lines 103-106 and the catch 136-142.
startSocketObserverNewHeadError ==
    /\ started
    /\ isSocketBasedProvider
    /\ subscribed
    /\ Len(cycles) < MaxCycles
    /\ cycles' = Append(cycles, Cycle("failed", 0, FALSE, Pending))
    /\ events' = emitError(events, "failure", NoReceipt, confirmations,
                           confirmationChecks)
    /\ UNCHANGED <<config, blockNumbers, lastBlock, confirmations,
                   confirmationChecks, started, subscribed, intervalActive,
                   unsubscribeCalls, clearIntervalCalls, stopCalls,
                   block>>

\* The receipt fetch of callback i resolves with receipt: lines 110-135.
startSocketObserverReceipt(i, receipt) ==
    /\ isSocketBasedProvider
    /\ i \in 1..Len(cycles)
    /\ cycles[i].pc = "receipt"
    /\ LET n == cycles[i].number
           fresh == ~Includes(blockNumbers, n)
           counted == fresh /\ receipt # NoReceipt
           c1 == IF counted THEN confirmations + 1 ELSE confirmations
           e1 == IF counted THEN emitNext(events, receipt, c1) ELSE events
           confirmed == counted /\ isConfirmed(c1)
           e2 == IF confirmed THEN Append(e1, CompleteEvent) ELSE e1
           k1 == IF fresh THEN confirmationChecks + 1 ELSE confirmationChecks
           timedOut == fresh /\ isTimeoutTimeExceeded(k1)
           e3 == IF timedOut THEN emitError(e2, "timeout", receipt, c1, k1) ELSE e2
           u1 == IF confirmed THEN unsubscribeCalls + 1 ELSE unsubscribeCalls
           u2 == IF timedOut THEN u1 + 1 ELSE u1
       IN  /\ confirmations' = c1
           /\ blockNumbers' = IF fresh THEN Append(blockNumbers, n) ELSE blockNumbers
           /\ confirmationChecks' = k1
           /\ events' = e3
           /\ unsubscribeCalls' = u2
           /\ subscribed' = (subscribed /\ ~confirmed /\ ~timedOut)
    /\ cycles' = Settle(i, "done", receipt)
    /\ UNCHANGED <<config, lastBlock, started, intervalActive,
                   clearIntervalCalls, stopCalls,
                   block>>

\* The receipt fetch of callback i rejects: line 110 throws, catch 136-142.
startSocketObserverReceiptError(i) ==
    /\ isSocketBasedProvider
    /\ i \in 1..Len(cycles)
    /\ cycles[i].pc = "receipt"
    /\ events' = emitError(events, "failure", NoReceipt, confirmations,
                           confirmationChecks)
    /\ cycles' = [cycles EXCEPT ![i].pc = "failed"]
    /\ UNCHANGED <<config, blockNumbers, lastBlock, confirmations,
                   confirmationChecks, started, subscribed, intervalActive,
                   unsubscribeCalls, clearIntervalCalls, stopCalls,
                   block>>

\* ------------------------------------------------------------- poll mode
\* The timer fires: lines 155-159, up to the await of the receipt fetch.
startHttpObserverTick ==
    /\ started
    /\ ~isSocketBasedProvider
    /\ intervalActive
    /\ Len(cycles) < MaxCycles
    /\ cycles' = Append(cycles, Cycle("receipt", 0, TRUE, Pending))
    /\ UNCHANGED <<config, blockNumbers, lastBlock, confirmations,
                   confirmationChecks, started, subscribed, intervalActive,
                   events, unsubscribeCalls, clearIntervalCalls, stopCalls,
                   block>>

\* Lines 181-191 with the counters c (confirmations) and the events evs the
\* callback has produced so far: count the check, test the timeout.
startHttpObserverCheck(i, receipt, c, evs, cleared) ==
    LET k1 == confirmationChecks + 1
        timedOut == isTimeoutTimeExceeded(k1)
    IN  /\ confirmations' = c
        /\ confirmationChecks' = k1
        /\ events' = IF timedOut THEN emitError(evs, "timeout", receipt, c, k1)
                                 ELSE evs
        /\ clearIntervalCalls' = clearIntervalCalls
                                   + (IF cleared THEN 1 ELSE 0)
                                   + (IF timedOut THEN 1 ELSE 0)
        /\ intervalActive' = (intervalActive /\ ~cleared /\ ~timedOut)
        /\ cycles' = Settle(i, "done", receipt)

\* The receipt fetch of tick i resolves with receipt: lines 159-163 or
\* 159-170 up to the await of the block fetch when there is a receipt,
\* lines 159-161 and 181-191 when there is none.
startHttpObserverReceipt(i, receipt) ==
    /\ ~isSocketBasedProvider
    /\ i \in 1..Len(cycles)
    /\ cycles[i].pc = "receipt"
    /\ IF receipt # NoReceipt
         THEN /\ cycles' = Settle(i, IF lastBlock # NoBlock THEN "blockNext"
                                                            ELSE "blockFirst",
                                  receipt)
              /\ UNCHANGED <<confirmations, confirmationChecks, events,
                             clearIntervalCalls, intervalActive>>
         ELSE startHttpObserverCheck(i, receipt, confirmations, events, FALSE)
    /\ UNCHANGED <<config, blockNumbers, lastBlock, started, subscribed,
                   unsubscribeCalls, stopCalls,
                   block>>

\* The block fetch of tick i resolves with block: lines 163-191 (from the
\* await of line 163) or 170-191 (from the await of line 170).
startHttpObserverBlock(i, b) ==
    /\ ~isSocketBasedProvider
    /\ i \in 1..Len(cycles)
    /\ cycles[i].pc \in {"blockNext", "blockFirst"}
    /\ b.hash = cycles[i].receipt
    /\ block' = b
    /\ LET receipt == cycles[i].receipt
           accepted == \/ cycles[i].pc = "blockFirst"
                       \/ isValidConfirmation(lastBlock, b)
           c1 == IF accepted THEN confirmations + 1 ELSE confirmations
           e1 == IF accepted THEN emitNext(events, receipt, c1) ELSE events
           confirmed == isConfirmed(c1)
           e2 == IF confirmed THEN Append(e1, CompleteEvent) ELSE e1
       IN  /\ lastBlock' = IF accepted THEN b ELSE lastBlock
           /\ startHttpObserverCheck(i, receipt, c1, e2, confirmed)
    /\ UNCHANGED <<config, blockNumbers, started, subscribed,
                   unsubscribeCalls, stopCalls>>

\* A rejected fetch that still counts as a check: the increment of line
\* 181 moved into the catch.
startHttpObserverErrorCounted(i) ==
    /\ ~isSocketBasedProvider
    /\ i \in 1..Len(cycles)
    /\ cycles[i].pc \in {"receipt", "blockNext", "blockFirst"}
    /\ clearIntervalCalls' = clearIntervalCalls + 1
    /\ intervalActive' = FALSE
    /\ confirmationChecks' = confirmationChecks + 1
    /\ events' = emitError(events, "failure", NoReceipt, confirmations,
                           confirmationChecks + 1)
    /\ cycles' = [cycles EXCEPT ![i].pc = "failed"]
    /\ UNCHANGED <<config, blockNumbers, lastBlock, confirmations,
                   started, subscribed, unsubscribeCalls, stopCalls, block>>

\* The receipt fetch or the block fetch of tick i rejects: catch 192-195.
startHttpObserverError(i) ==
    /\ ~isSocketBasedProvider
    /\ i \in 1..Len(cycles)
    /\ cycles[i].pc \in {"receipt", "blockNext", "blockFirst"}
    /\ clearIntervalCalls' = clearIntervalCalls + 1
    /\ intervalActive' = FALSE
    /\ events' = emitError(events, "failure", NoReceipt, confirmations,
                           confirmationChecks)
    /\ cycles' = [cycles EXCEPT ![i].pc = "failed"]
    /\ UNCHANGED <<config, blockNumbers, lastBlock, confirmations,
                   confirmationChecks, started, subscribed, unsubscribeCalls,
                   stopCalls,
                   block>>

\* ------------------------------------------------------------------ Next
Next ==
    \/ Observe
    \/ stop
    \/ \E n \in 1..MaxHeadNumber : startSocketObserverNewHead(n)
    \/ startSocketObserverNewHeadError
    \/ \E i \in 1..MaxCycles, r \in {NoReceipt, FirstReceipt} :
          startSocketObserverReceipt(i, r)
    \/ \E i \in 1..MaxCycles : startSocketObserverReceiptError(i)
    \/ startHttpObserverTick
    \/ \E i \in 1..MaxCycles, r \in {NoReceipt} \cup Receipts :
          startHttpObserverReceipt(i, r)
    \/ \E i \in 1..MaxCycles, b \in Blocks : startHttpObserverBlock(i, b)
    \/ \E i \in 1..MaxCycles : startHttpObserverError(i)

Spec == Init /\ [][Next]_vars

\* ============================================================ properties
Terminal(e) == e.type \in {"complete", "error"}

\* The calls made on the observer by the step
NewEvents == SubSeq(events', Len(events) + 1, Len(events'))

TerminalCalls == Cardinality({j \in 1..Len(events) : Terminal(events[j])})

IsTimeoutError(e) == e.type = "error" /\ e.kind = "timeout"

IsFailureError(e) == e.type = "error" /\ e.kind = "failure"

\* Header announcements that carried the number n
Announcements(n) == Cardinality({i \in 1..Len(cycles) : cycles[i].number = n})

\* Receipt fetches issued by the announcements that carried the number n
ReceiptFetches(n) ==
    Cardinality({i \in 1..Len(cycles) : cycles[i].number = n /\ cycles[i].fetched})

\* C1: confirmations is at most blockConfirmations in every reachable
\* state, in push mode and in poll mode.
C1_ConfirmationsBounded == confirmations <= blockConfirmations

\* C2: the calls of observer.complete() plus the calls of observer.error()
\* are at most one over the lifetime of an observation.
C2_AtMostOneTerminal == TerminalCalls <= 1

\* C3: no observer.next() call follows an observer.complete() or
\* observer.error() call.
C3_NoNextAfterTerminal ==
    \A j, k \in 1..Len(events) :
        (j < k /\ Terminal(events[j])) => events[k].type # "next"

\* C4 as stated: in push mode at most one receipt fetch is issued on behalf
\* of the announcements carrying a given block number.
C4_AtMostOneFetchPerNumber ==
    \A n \in 1..MaxHeadNumber : ReceiptFetches(n) <= 1

\* C4 as amended: in push mode every header announcement issues exactly
\* one receipt fetch, also when its number is already in blockNumbers, so
\* the receipt fetches issued for a block number are as many as the
\* announcements that carried it.
C4_OneFetchPerAnnouncement ==
    \A n \in 1..MaxHeadNumber : ReceiptFetches(n) = Announcements(n)

\* A number already in blockNumbers has been announced again and the
\* receipt has been fetched for it again.
C4_Witness ==
    \E n \in 1..MaxHeadNumber :
        /\ Includes(blockNumbers, n)
        /\ Announcements(n) >= 2
        /\ ReceiptFetches(n) >= 2

\* The candidate extends the accepted block and is strictly taller
Continuous(last, candidate) ==
    candidate.parentHash = last.hash /\ candidate.number > last.number

\* C5: in poll mode, once a first block has been accepted, a fetched
\* candidate block is accepted (confirmations incremented, lastBlock
\* replaced, next emitted) if and only if its parentHash is lastBlock.hash
\* and its number is strictly greater than lastBlock.number.
C5_AcceptedIffContinuous ==
    [][\A i \in 1..Len(cycles) :
          ( /\ ~isSocketBasedProvider
            /\ lastBlock # NoBlock
            /\ cycles[i].pc \in {"blockNext", "blockFirst"}
            /\ cycles'[i].pc = "done" )
          => /\ ( /\ confirmations' = confirmations + 1
                  /\ lastBlock' = block'
                  /\ Len(NewEvents) >= 1
                  /\ NewEvents[1] = NextEvent(cycles[i].receipt, confirmations') )
                <=> Continuous(lastBlock, block')
             /\ ~Continuous(lastBlock, block') => confirmations' = confirmations]_vars

\* C6: a step emits the timeout error exactly when it raises
\* confirmationChecks to timeout; it emits it once, and the error carries
\* confirmationChecks = timeout.
C6_TimeoutExactlyAtBudget ==
    [][LET raised == /\ confirmationChecks' # confirmationChecks
                     /\ confirmationChecks' = timeout
           fired == {j \in 1..Len(NewEvents) : IsTimeoutError(NewEvents[j])}
       IN  /\ raised <=> fired # {}
           /\ Cardinality(fired) <= 1
           /\ \A j \in fired : NewEvents[j].confirmationChecks = timeout]_vars

\* The timeout error has been emitted, once, and a later cycle has raised
\* confirmationChecks above timeout.
C6_Witness ==
    /\ confirmationChecks > timeout
    /\ Cardinality({j \in 1..Len(events) : IsTimeoutError(events[j])}) = 1
    /\ \E j \in 1..Len(events) :
          IsTimeoutError(events[j]) /\ events[j].confirmationChecks = timeout

\* C7: a second call of stop() changes nothing: no further unsubscribe of
\* the header feed, no emission, no change of the tracker's state.
C7_StopIdempotent ==
    [][(stopCalls >= 1 /\ stopCalls' = stopCalls + 1)
         => /\ unsubscribeCalls' = unsubscribeCalls
            /\ UNCHANGED <<subscribed, intervalActive, events, cycles,
                           blockNumbers, lastBlock, confirmations,
                           confirmationChecks>>]_vars

\* C8: once stop() has been called no call is made on the observer.
C8_NoEventAfterStop == [][stopCalls >= 1 => events' = events]_vars

\* The resource of the active strategy is released by the step
Released ==
    IF isSocketBasedProvider
      THEN unsubscribeCalls' > unsubscribeCalls /\ ~subscribed'
      ELSE clearIntervalCalls' > clearIntervalCalls /\ ~intervalActive'

\* C9: the step that emits a failure error releases the strategy's
\* resource, and once a failure error has been emitted no cycle starts or
\* continues: no fetch, no state change, no emission.
C9_FailureIsTerminal ==
    [][/\ (\E j \in 1..Len(NewEvents) : IsFailureError(NewEvents[j])) => Released
       /\ (\E j \in 1..Len(events) : IsFailureError(events[j]))
            => UNCHANGED <<cycles, events, blockNumbers, lastBlock,
                           confirmations, confirmationChecks>>]_vars

\* Push mode, timeout > blockConfirmations, no stop(), no failure, pairwise
\* distinct announced numbers, a receipt in every settled fetch.
HappyPush ==
    /\ isSocketBasedProvider
    /\ timeout > blockConfirmations
    /\ stopCalls = 0
    /\ \A j \in 1..Len(events) : ~IsFailureError(events[j])
    /\ \A i \in 1..Len(cycles) :
          /\ cycles[i].number > 0
          /\ cycles[i].pc = "done" => cycles[i].receipt \in Receipts
          /\ \A i2 \in 1..Len(cycles) :
                i # i2 => cycles[i].number # cycles[i2].number

\* C10: on the push-mode happy path the calls on the observer are a prefix
\* of next(1), ..., next(N), complete() with N = blockConfirmations, and
\* the header feed is unsubscribed, once, in the step of the N-th next.
C10_PushHappyPath ==
    HappyPush =>
        /\ Len(events) <= blockConfirmations + 1
        /\ \A j \in 1..Len(events) :
              IF j <= blockConfirmations
                THEN events[j].type = "next" /\ events[j].confirmations = j
                ELSE events[j].type = "complete"
        /\ Len(events) # blockConfirmations
        /\ unsubscribeCalls = (IF Len(events) > blockConfirmations THEN 1 ELSE 0)

\* No failure, and every settled receipt fetch found no receipt; in push
\* mode the announced numbers are pairwise distinct.
NoReceiptRun ==
    /\ \A j \in 1..Len(events) : ~IsFailureError(events[j])
    /\ \A i \in 1..Len(cycles) :
          /\ cycles[i].pc # "failed"
          /\ cycles[i].receipt \in {Pending, NoReceipt}
          /\ \A i2 \in 1..Len(cycles) :
                (isSocketBasedProvider /\ i # i2)
                    => cycles[i].number # cycles[i2].number

\* Calls that released the feed or the timer, other than those of stop()
CycleReleases ==
    (IF isSocketBasedProvider THEN unsubscribeCalls ELSE clearIntervalCalls)
        - stopCalls

\* C11: when no fetch fails and no receipt is ever found, nothing is
\* emitted while confirmationChecks is below timeout; from the cycle that
\* raises it to timeout on, the only call on the observer is one timeout
\* error carrying no receipt, confirmations = 0 and confirmationChecks =
\* timeout, and that cycle released the feed or the timer, once.
C11_TimeoutWithoutReceipt ==
    NoReceiptRun =>
        /\ confirmations = 0
        /\ events = IF confirmationChecks >= timeout
                      THEN <<ErrorEvent("timeout", NoReceipt, 0, timeout)>>
                      ELSE <<>>
        /\ CycleReleases = (IF confirmationChecks >= timeout THEN 1 ELSE 0)
        /\ confirmationChecks >= timeout => (~subscribed /\ ~intervalActive)

\* The second of two cycles without a receipt has raised confirmationChecks
\* to timeout = 2.
C11_Witness ==
    /\ NoReceiptRun
    /\ timeout = 2
    /\ confirmationChecks = 2
    /\ stopCalls = 0
    /\ Len(events) = 1

\* The callbacks suspended at an await
InFlight == {i \in 1..Len(cycles) : cycles[i].pc \notin {"done", "failed"}}

\* C12: in poll mode at most one tick is in progress at any time: no tick
\* starts while the receipt or block fetch of an earlier tick is unsettled.
C12_PollOneCycleAtATime ==
    ~isSocketBasedProvider => Cardinality(InFlight) <= 1

\* C13: in push mode each announcement callback has run to completion,
\* awaited receipt fetch included, before the callback of the next
\* announcement starts, and no callback changes the counters or emits
\* once the feed has been unsubscribed.
C13_PushRunToCompletion ==
    [][isSocketBasedProvider =>
         /\ Cardinality(InFlight') <= 1
         /\ (unsubscribeCalls > stopCalls)
              => UNCHANGED <<confirmations, confirmationChecks, events>>]_vars

\* The numbers in blockNumbers
SeenNumbers == {blockNumbers[k] : k \in 1..Len(blockNumbers)}

\* C14: in push mode a callback that increments confirmations or
\* confirmationChecks or emits a next or timeout event does so for a number
\* that was not in blockNumbers and records it there, and no number ever
\* leaves blockNumbers: so at most one callback per number does any of it.
C14_NumberProcessedOnce ==
    [][isSocketBasedProvider =>
         /\ SeenNumbers \subseteq SeenNumbers'
         /\ \A i \in 1..Len(cycles) :
              ( /\ cycles[i].pc = "receipt"
                /\ cycles'[i].pc # "receipt"
                /\ \/ confirmations' # confirmations
                   \/ confirmationChecks' # confirmationChecks
                   \/ \E j \in 1..Len(NewEvents) :
                        \/ NewEvents[j].type = "next"
                        \/ IsTimeoutError(NewEvents[j]) )
              => /\ cycles[i].number \notin SeenNumbers
                 /\ cycles[i].number \in SeenNumbers'
                 /\ Len(blockNumbers') = Len(blockNumbers) + 1]_vars

\* The same number was announced twice with both fetches in flight; both
\* found a receipt, and only one of the two callbacks counted.
C14_Witness ==
    /\ isSocketBasedProvider
    /\ Len(cycles) = 2
    /\ cycles[1].number = cycles[2].number
    /\ cycles[1].pc = "done" /\ cycles[2].pc = "done"
    /\ cycles[1].receipt # NoReceipt /\ cycles[2].receipt # NoReceipt
    /\ blockNumbers = <<cycles[1].number>>
    /\ confirmations = 1
    /\ confirmationChecks = 1

\* this.confirmations, this.confirmationChecks, this.blockNumbers, this.lastBlock
ConfirmationState == <<confirmations, confirmationChecks, blockNumbers, lastBlock>>

\* The callback i returns through the catch in this step
Fails(i) ==
    /\ i \in 1..Len(cycles')
    /\ cycles'[i].pc = "failed"
    /\ (i \in 1..Len(cycles) => cycles[i].pc # "failed")

\* The callback i starts, or resumes and suspends again, in this step
Suspends(i) ==
    /\ i \in 1..Len(cycles')
    /\ cycles'[i].pc \in {"receipt", "blockNext", "blockFirst"}
    /\ (i \in 1..Len(cycles) => cycles[i].pc # cycles'[i].pc)

\* C15: a callback that fails changes none of confirmations,
\* confirmationChecks, blockNumbers and lastBlock, neither in the runs
\* before its failure nor in the run that fails; the failing run makes one
\* call on the observer, the failure error with no receipt and the
\* unchanged counts, and no timeout error.
C15_FailedCycleFrame ==
    [][\A i \in 1..MaxCycles :
          /\ Suspends(i) => UNCHANGED ConfirmationState
          /\ Fails(i) =>
               /\ UNCHANGED ConfirmationState
               /\ NewEvents = <<ErrorEvent("failure", NoReceipt,
                                           confirmations, confirmationChecks)>>]_vars

\* In each mode a fetch has failed after an earlier cycle had counted a
\* confirmation and a check.
C15_Witness ==
    /\ Len(cycles) = 2
    /\ cycles[1].pc = "done"
    /\ cycles[2].pc = "failed"
    /\ cycles[2].fetched
    /\ confirmations = 1
    /\ confirmationChecks = 1
    /\ events[Len(events)] = ErrorEvent("failure", NoReceipt, 1, 1)

\* C16: in poll mode a tick that found a receipt and lastBlock set, and
\* whose fetched block is not a valid confirmation, leaves confirmations
\* and lastBlock unchanged, emits neither next nor a failure error, and
\* raises confirmationChecks by exactly 1.
C16_ReorgRejectionSilent ==
    [][\A i \in 1..Len(cycles) :
          ( /\ ~isSocketBasedProvider
            /\ cycles[i].pc = "blockNext"
            /\ cycles'[i].pc = "done"
            /\ ~( /\ lastBlock.hash = block'.parentHash
                  /\ lastBlock.number # block'.number ) )
          => /\ confirmations' = confirmations
             /\ lastBlock' = lastBlock
             /\ confirmationChecks' = confirmationChecks + 1
             /\ \A j \in 1..Len(NewEvents) :
                  /\ NewEvents[j].type # "next"
                  /\ ~IsFailureError(NewEvents[j])]_vars

\* The first tick accepted a block, the second tick fetched a block of
\* another number whose parent is not that block; one next, two checks.
C16_Witness ==
    /\ ~isSocketBasedProvider
    /\ Len(cycles) = 2
    /\ cycles[1].pc = "done" /\ cycles[2].pc = "done"
    /\ lastBlock # NoBlock
    /\ block.number # lastBlock.number
    /\ block.parentHash # lastBlock.hash
    /\ confirmations = 1
    /\ confirmationChecks = 2
    /\ Cardinality({j \in 1..Len(events) : events[j].type = "next"}) = 1

\* ------------------------------------------ poll mode, one tick at a time
InitHttp == Init /\ provider = "http"

\* The timer fires while no earlier tick is suspended
startHttpObserverTickSerial ==
    /\ InFlight = {}
    /\ startHttpObserverTick

\* The receipt fetch resolves with no receipt or with a receipt that names
\* the block hash every earlier receipt named
startHttpObserverReceiptSteady(i, receipt) ==
    /\ \/ receipt = NoReceipt
       \/ \A i2 \in 1..Len(cycles) :
            cycles[i2].receipt \in {Pending, NoReceipt, receipt}
    /\ startHttpObserverReceipt(i, receipt)

\* The block fetch resolves with the header every earlier block fetch
\* returned
startHttpObserverBlockSteady(i, b) ==
    /\ block = NoBlock \/ b = block
    /\ startHttpObserverBlock(i, b)

\* Poll mode with non-overlapping ticks on a ledger that does not reorganize
NextSteady ==
    \/ Observe
    \/ stop
    \/ startHttpObserverTickSerial
    \/ \E i \in 1..MaxCycles, r \in {NoReceipt} \cup Receipts :
          startHttpObserverReceiptSteady(i, r)
    \/ \E i \in 1..MaxCycles, b \in Blocks : startHttpObserverBlockSteady(i, b)
    \/ \E i \in 1..MaxCycles : startHttpObserverError(i)

SpecSteady == InitHttp /\ [][NextSteady]_vars

\* C17: in poll mode with non-overlapping ticks and a ledger that does not
\* reorganize, confirmations never exceeds 1; so with blockConfirmations
\* >= 2 complete() is never called, and once confirmationChecks has
\* reached timeout the timeout error has been emitted.
C17_SteadyLedgerNeverConfirms ==
    /\ confirmations <= 1
    /\ blockConfirmations >= 2 =>
         /\ \A j \in 1..Len(events) : events[j].type # "complete"
         /\ confirmationChecks >= timeout =>
              \E j \in 1..Len(events) : IsTimeoutError(events[j])

\* Two ticks found the same receipt and the same block: the first was
\* accepted, the second rejected, and the budget of 2 checks was used up.
C17_Witness ==
    /\ blockConfirmations = 2
    /\ timeout = 2
    /\ Len(cycles) = 2
    /\ cycles[1].pc = "done" /\ cycles[2].pc = "done"
    /\ cycles[1].receipt # NoReceipt
    /\ cycles[2].receipt = cycles[1].receipt
    /\ block = lastBlock
    /\ confirmations = 1
    /\ confirmationChecks = 2
    /\ IsTimeoutError(events[Len(events)])

\* Poll mode with non-overlapping ticks, a timer that keeps ticking (no
\* stop()) and fetches that settle
NextPoll ==
    \/ Observe
    \/ startHttpObserverTickSerial
    \/ \E i \in 1..MaxCycles, r \in {NoReceipt} \cup Receipts :
          startHttpObserverReceipt(i, r)
    \/ \E i \in 1..MaxCycles, b \in Blocks : startHttpObserverBlock(i, b)
    \/ \E i \in 1..MaxCycles : startHttpObserverError(i)

SpecPollFair == InitHttp /\ [][NextPoll]_vars /\ WF_vars(NextPoll)

\* A terminal call has been made, the timer is cleared, no tick is suspended
Terminated ==
    /\ TerminalCalls >= 1
    /\ clearIntervalCalls >= 1
    /\ ~intervalActive
    /\ InFlight = {}

\* C18: in poll mode with non-overlapping ticks at most timeout ticks run,
\* a terminal call on the observer comes with the clearing of the timer,
\* and the observation eventually terminates (whenever the budget timeout
\* lies within the MaxCycles ticks of a run).
C18_PollTerminatesWithinBudget ==
    /\ [](Len(cycles) <= timeout)
    /\ [](TerminalCalls >= 1 => ~intervalActive)
    /\ <>(timeout > MaxCycles \/ Terminated)

\* The second tick used up the budget of 2 checks: timeout error, timer
\* cleared, nothing in flight.
C18_Witness ==
    /\ timeout = 2
    /\ Len(cycles) = 2
    /\ confirmationChecks = 2
    /\ Terminated
    /\ IsTimeoutError(events[Len(events)])

\* The positions of the next calls among the first j calls on the observer
NextsUpTo(j) == {m \in 1..j : events[m].type = "next"}

\* C19: the k-th next call on the observer carries confirmations = k, in
\* both modes and for every interleaving of the callbacks.
C19_ProgressGapFree ==
    \A j \in 1..Len(events) :
        events[j].type = "next"
            => events[j].confirmations = Cardinality(NextsUpTo(j))

\* Two overlapping callbacks have each emitted a next: 1, then 2.
C19_Witness ==
    /\ Len(cycles) = 2
    /\ cycles[1].pc = "done" /\ cycles[2].pc = "done"
    /\ confirmations = 2
    /\ Cardinality(NextsUpTo(Len(events))) = 2
    /\ \E j \in 1..Len(events) :
          events[j].type = "next" /\ events[j].confirmations = 2

\* C20: in push mode blockNumbers holds no number twice, its length is
\* confirmationChecks, and confirmations is at most confirmationChecks
\* (between two runs no callback is between the two increments).
C20_SeenNumbersInvariant ==
    isSocketBasedProvider =>
        /\ \A j, k \in 1..Len(blockNumbers) :
              j # k => blockNumbers[j] # blockNumbers[k]
        /\ Len(blockNumbers) = confirmationChecks
        /\ confirmations <= confirmationChecks

\* Two numbers have been processed, one of them announced with a receipt.
C20_Witness ==
    /\ isSocketBasedProvider
    /\ Len(blockNumbers) = 2
    /\ confirmationChecks = 2
    /\ confirmations = 1

====
